---- MODULE Spec2Model ----
(***************************************************************************)
(* sqlx-repository: the Repository trait's default operations              *)
(* (find_by_id, find_all, delete, search, restore, hard_delete, count),    *)
(* the statement text they build, and SearchResult's page arithmetic.      *)
(*                                                                         *)
(* Statement text is a sequence of lexical tokens.  A token is a record    *)
(* [k, s, n]: k = "kw" fixed SQL text of a format string, k = "id" an      *)
(* interpolated identifier (table, column, sort field), k = "ph" a         *)
(* positional placeholder "$n", k = "num" an interpolated number.          *)
(* Caller strings that are inspected character by character (the query,    *)
(* filter values) are sequences of one-character strings.                  *)
(***************************************************************************)
EXTENDS Integers, Sequences, FiniteSets, TLC

VARIABLES
    meta,       \* the entity metadata of the repository in use
    db,         \* the table: id -> row, or NoRow
    now,        \* the database clock read by NOW()
    next_id,    \* the id the next insert receives
    pending,    \* per caller: a search() between its count and its fetch
    last,       \* the call that completed last
    params,     \* builder runs: the SearchParams under construction
    inserted,   \* builder runs: the filter entries in the order the caller inserted them
    built,      \* builder runs: what search() and count() built from params
    page_in,    \* pagination runs: the arguments of SearchResult::new
    page_out,   \* pagination runs: the SearchResult it returned
    backend     \* backend runs: a PostgresBackend builder call and the text it returned

vars == <<meta, db, now, next_id, pending, last, params, inserted, built, page_in, page_out,
          backend>>

(***************************************************************************)
(* Bounds of the model.                                                    *)
(***************************************************************************)
MaxId == 2          \* ids 1..MaxId can be stored
MaxClock == 3       \* the clock stops advancing here
MaxFilters == 2     \* entries of a filters map
MaxQueryLen == 2    \* characters of a query string

(***************************************************************************)
(* Text.                                                                   *)
(***************************************************************************)
Kw(s) == [k |-> "kw", s |-> s, n |-> 0]
Id(s) == [k |-> "id", s |-> s, n |-> 0]
Num(n) == [k |-> "num", s |-> "", n |-> n]

\* postgres.rs placeholder(index): format!("${}", index)
placeholder(index) == [k |-> "ph", s |-> "$", n |-> index]

\* Vec<String>::join(sep)
RECURSIVE join(_, _)
join(parts, sep) ==
    IF Len(parts) = 0 THEN <<>>
    ELSE IF Len(parts) = 1 THEN parts[1]
    ELSE parts[1] \o <<sep>> \o join(Tail(parts), sep)

\* slice.contains(x)
contains(list, x) == \E i \in 1..Len(list) : list[i] = x

\* char::is_whitespace on the characters the model draws
is_whitespace(c) == c \in {" ", "\t"}

\* str::trim(): strip leading and trailing whitespace
RECURSIVE trim_start(_)
trim_start(s) ==
    IF Len(s) > 0 /\ is_whitespace(s[1]) THEN trim_start(Tail(s)) ELSE s

RECURSIVE trim_end(_)
trim_end(s) ==
    IF Len(s) > 0 /\ is_whitespace(s[Len(s)])
    THEN trim_end(SubSeq(s, 1, Len(s) - 1)) ELSE s

trim(s) == trim_end(trim_start(s))

(***************************************************************************)
(* Option<T>.                                                              *)
(***************************************************************************)
None == [some |-> FALSE, v |-> <<>>]
Some(x) == [some |-> TRUE, v |-> x]

(***************************************************************************)
(* Entity metadata: what the derive macro's table_name(),                  *)
(* soft_delete_enabled(), searchable_fields() and filterable_fields()      *)
(* return for the entities of the tests and examples.                      *)
(***************************************************************************)
User ==
    [table_name |-> "users", soft_delete_enabled |-> TRUE,
     searchable_fields |-> <<"name", "email">>,
     filterable_fields |-> <<"status", "department">>]

Post ==
    [table_name |-> "posts", soft_delete_enabled |-> FALSE,
     searchable_fields |-> <<"title", "content">>,
     filterable_fields |-> <<"published", "user_id">>]

\* examples/soft_delete.rs: soft delete, the trait's default (empty) field lists
SoftPost ==
    [table_name |-> "posts", soft_delete_enabled |-> TRUE,
     searchable_fields |-> <<>>, filterable_fields |-> <<>>]

Entities == {User, Post, SoftPost}

(***************************************************************************)
(* Repository::search, the statement-building half (lines 97-163).         *)
(***************************************************************************)
\* scope_conditions without the soft_delete_enabled() check
scope_conditions_regardless(m, p) ==
    CASE p.scope = "Active" -> << <<Id("deleted_at"), Kw(" IS NULL")>> >>
      [] p.scope = "Deleted" -> << <<Id("deleted_at"), Kw(" IS NOT NULL")>> >>
      [] p.scope = "All" -> <<>>

\* lines 102-109 and 229-236
scope_conditions(m, p) ==
    IF m.soft_delete_enabled
    THEN CASE p.scope = "Active" -> << <<Id("deleted_at"), Kw(" IS NULL")>> >>
           [] p.scope = "Deleted" -> << <<Id("deleted_at"), Kw(" IS NOT NULL")>> >>
           [] p.scope = "All" -> <<>>
    ELSE <<>>

\* text_search_emitted without the trim() of the query
text_search_emitted_untrimmed(m, p) ==
    /\ p.query.some
    /\ Len(m.searchable_fields) # 0
    /\ Len(p.query.v) # 0

\* lines 112-113 and 239-240
text_search_emitted(m, p) ==
    /\ p.query.some
    /\ Len(m.searchable_fields) # 0
    /\ Len(trim(p.query.v)) # 0

\* search_condition with a placeholder of its own for every field
search_condition_per_field(m, bind_count) ==
    <<Kw("(")>>
    \o join([i \in 1..Len(m.searchable_fields) |->
                <<Id(m.searchable_fields[i]), Kw(" ILIKE "), placeholder(bind_count + i - 1)>>],
            Kw(" OR "))
    \o <<Kw(")")>>

\* lines 115-120: "(f1 ILIKE $k OR f2 ILIKE $k ...)"
search_condition(m, bind_count) ==
    <<Kw("(")>>
    \o join([i \in 1..Len(m.searchable_fields) |->
                <<Id(m.searchable_fields[i]), Kw(" ILIKE "), placeholder(bind_count)>>],
            Kw(" OR "))
    \o <<Kw(")")>>

\* line 121: format!("%{}%", query)
like_pattern(query) == <<"%">> \o query \o <<"%">>

\* filter entries accepted whatever their key
filter_accepted_any(m, field) == TRUE

\* lines 127 and 254: Self::filterable_fields().contains(&field.as_str())
filter_accepted(m, field) == contains(m.filterable_fields, field)

\* filter_loop with the value written into the condition instead of bound
RECURSIVE filter_loop_inline(_, _, _)
filter_loop_inline(m, filters, acc) ==
    IF Len(filters) = 0 THEN acc
    ELSE LET field == filters[1][1]
             value == filters[1][2]
         IN IF filter_accepted(m, field)
            THEN filter_loop_inline(m, Tail(filters),
                    [bind_count |-> acc.bind_count,
                     conditions |-> Append(acc.conditions,
                         <<Id(field), Kw(" = '"), Kw(value[1]), Kw("'")>>),
                     bind_values |-> acc.bind_values])
            ELSE filter_loop_inline(m, Tail(filters), acc)

\* lines 126-132: the loop over params.filters, in the map's iteration order
RECURSIVE filter_loop(_, _, _)
filter_loop(m, filters, acc) ==
    IF Len(filters) = 0 THEN acc
    ELSE LET field == filters[1][1]
             value == filters[1][2]
         IN IF filter_accepted(m, field)
            THEN filter_loop(m, Tail(filters),
                    [bind_count |-> acc.bind_count + 1,
                     conditions |-> Append(acc.conditions,
                         <<Id(field), Kw(" = "), placeholder(acc.bind_count + 1)>>),
                     bind_values |-> Append(acc.bind_values, value)])
            ELSE filter_loop(m, Tail(filters), acc)

\* search_conditions with the counter left at 0 by the text-search step
search_conditions_stuck(m, p) ==
    LET s0 == [bind_count |-> 0, conditions |-> scope_conditions(m, p),
               bind_values |-> <<>>]
        s1 == IF text_search_emitted(m, p)
              THEN [bind_count |-> s0.bind_count,
                    conditions |-> Append(s0.conditions,
                                          search_condition(m, s0.bind_count + 1)),
                    bind_values |-> Append(s0.bind_values, like_pattern(p.query.v))]
              ELSE s0
    IN filter_loop(m, p.filters, s1)

\* lines 98-132: conditions, bind_count and bind_values after the three steps
search_conditions(m, p) ==
    LET s0 == [bind_count |-> 0, conditions |-> scope_conditions(m, p),
               bind_values |-> <<>>]
        s1 == IF text_search_emitted(m, p)
              THEN [bind_count |-> s0.bind_count + 1,
                    conditions |-> Append(s0.conditions,
                                          search_condition(m, s0.bind_count + 1)),
                    bind_values |-> Append(s0.bind_values, like_pattern(p.query.v))]
              ELSE s0
    IN filter_loop(m, p.filters, s1)

\* where_clause that writes a clause for an empty list too
where_clause_true(conditions) ==
    IF Len(conditions) = 0 THEN <<Kw(" WHERE "), Kw("TRUE")>>
    ELSE <<Kw(" WHERE ")>> \o join(conditions, Kw(" AND "))

\* lines 134-138 and 261-265
where_clause(conditions) ==
    IF Len(conditions) = 0 THEN <<>>
    ELSE <<Kw(" WHERE ")>> \o join(conditions, Kw(" AND "))

\* lines 141-145
count_query(m, conditions) ==
    <<Kw("SELECT COUNT(*) FROM "), Id(m.table_name)>> \o where_clause(conditions)

\* Scaled integer widths: u32, the f64 significand and i64, in that order
U32Bits == 5
F64MantissaBits == 7
I64Bits == 9

RECURSIVE Pow2(_)
Pow2(n) == IF n = 0 THEN 1 ELSE 2 * Pow2(n - 1)

U32Max == Pow2(U32Bits) - 1
I64Max == Pow2(I64Bits - 1) - 1
I64Min == 0 - Pow2(I64Bits - 1)

\* line 148: params.sort_by.as_deref().unwrap_or("id")
sort_field(p) == IF p.sort_by.some THEN p.sort_by.v ELSE "id"

\* lines 149-152
sort_order(p) == IF p.sort_order = "Asc" THEN "ASC" ELSE "DESC"

\* line 153: u32 multiplication, wrapping as in a release build
offset(p) == (p.page * p.per_page) % Pow2(U32Bits)

\* line 153 in a build with overflow checks: the multiplication panics when the
\* product does not fit u32
offset_panics(p, overflow_checks) ==
    overflow_checks /\ p.page * p.per_page > U32Max

\* lines 155-163
main_query(m, p, conditions) ==
    <<Kw("SELECT * FROM "), Id(m.table_name)>> \o where_clause(conditions)
    \o <<Kw(" ORDER BY "), Id(sort_field(p)), Kw(" "), Kw(sort_order(p)),
         Kw(" LIMIT "), Num(p.per_page), Kw(" OFFSET "), Num(offset(p))>>

\* lines 97-172: the two statements of search() and the values bound to both
search_statements(m, p) ==
    LET c == search_conditions(m, p)
    IN [conditions |-> c.conditions,
        count_query |-> count_query(m, c.conditions),
        main_query |-> main_query(m, p, c.conditions),
        bind_values |-> c.bind_values]

(***************************************************************************)
(* Repository::count, the statement-building half (lines 225-276).         *)
(***************************************************************************)
\* lines 241-246: "{} ILIKE $1"
count_search_condition(m) ==
    <<Kw("(")>>
    \o join([i \in 1..Len(m.searchable_fields) |->
                <<Id(m.searchable_fields[i]), Kw(" ILIKE "), placeholder(1)>>],
            Kw(" OR "))
    \o <<Kw(")")>>

\* count_conditions with the filter placeholders numbered from $1 always
count_conditions_restart(m, p) ==
    LET s0 == [bind_count |-> 0, conditions |-> scope_conditions(m, p),
               bind_values |-> <<>>]
        s1 == IF text_search_emitted(m, p)
              THEN [bind_count |-> 0,
                    conditions |-> Append(s0.conditions, count_search_condition(m)),
                    bind_values |-> Append(s0.bind_values, like_pattern(p.query.v))]
              ELSE s0
    IN filter_loop(m, p.filters, s1)

\* lines 226-259
count_conditions(m, p) ==
    LET s0 == [bind_count |-> 0, conditions |-> scope_conditions(m, p),
               bind_values |-> <<>>]
        s1 == IF text_search_emitted(m, p)
              THEN [bind_count |-> 0,
                    conditions |-> Append(s0.conditions, count_search_condition(m)),
                    bind_values |-> Append(s0.bind_values, like_pattern(p.query.v))]
              ELSE s0
        \* line 252
        s2 == [s1 EXCEPT !.bind_count = IF Len(s1.bind_values) = 0 THEN 0 ELSE 1]
    IN filter_loop(m, p.filters, s2)

\* lines 225-276
count_statement(m, p) ==
    LET c == count_conditions(m, p)
    IN [conditions |-> c.conditions,
        count_query |-> count_query(m, c.conditions),
        bind_values |-> c.bind_values]

(***************************************************************************)
(* SearchParams (search.rs 10-40).                                         *)
(***************************************************************************)
DefaultParams ==
    [query |-> None, filters |-> <<>>, page |-> 0, per_page |-> 10,
     sort_by |-> None, sort_order |-> "Asc", scope |-> "Active"]

RecordScope == {"Active", "Deleted", "All"}
SortOrder == {"Asc", "Desc"}

\* the characters query strings are drawn from
QueryChars == {" ", "a", "'"}

RECURSIVE SeqsUpTo(_, _)
SeqsUpTo(S, n) ==
    IF n = 0 THEN {<<>>}
    ELSE LET shorter == SeqsUpTo(S, n - 1)
         IN shorter \cup {Append(s, x) : s \in shorter, x \in S}

Queries == {None} \cup {Some(q) : q \in SeqsUpTo(QueryChars, MaxQueryLen)}

\* filter keys a caller may send: filterable columns of the entities, and others
FilterKeys == {"status", "department", "bogus"}
FilterValues == {<<"x">>, <<"'">>}

\* a HashMap<String, String> as the sequence of entries its iteration yields:
\* any order, no key twice
FilterMaps ==
    {f \in SeqsUpTo(FilterKeys \X FilterValues, MaxFilters) :
        \A i, j \in 1..Len(f) : i # j => f[i][1] # f[j][1]}

\* HashMap::insert then iteration: the map yields its entries in an order of its
\* own, so a map that iterates as `filters` may have been filled in any order
insertion_orders(filters) ==
    {g \in SeqsUpTo(FilterKeys \X FilterValues, Len(filters)) :
        /\ Len(g) = Len(filters)
        /\ \A i \in 1..Len(filters) : \E j \in 1..Len(g) : g[j] = filters[i]}

\* sort_by is any caller string: a column, an unknown name, SQL
SortBys == {None, Some("name"), Some("id; DROP TABLE users")}

\* page, per_page and sort_order: the defaults, a later page in descending order,
\* and the last page number of the u32 range
PageAndOrder == {<<0, 10, "Asc">>, <<2, 3, "Desc">>, <<U32Max, 2, "Asc">>}

ParamsSet ==
    {[query |-> q, filters |-> f, page |-> pg[1], per_page |-> pg[2],
      sort_by |-> sb, sort_order |-> pg[3], scope |-> sc] :
        q \in Queries, f \in FilterMaps, pg \in PageAndOrder,
        sb \in SortBys, sc \in RecordScope}

(***************************************************************************)
(* SearchResult::new (search.rs 93-107).  An f64 is a record [num, shift]  *)
(* of value num / 2^shift whose significand has at most F64MantissaBits    *)
(* bits; conversions and division round to nearest, ties to even.          *)
(***************************************************************************)
Abs(n) == IF n < 0 THEN 0 - n ELSE n

\* the number of bits of n >= 0
RECURSIVE BitLen(_)
BitLen(n) == IF n = 0 THEN 0 ELSE 1 + BitLen(n \div 2)

\* num / den rounded to the nearest integer, ties to even (num >= 0, den > 0)
RoundHalfEven(num, den) ==
    LET q == num \div den
        r == num % den
    IN IF 2 * r > den \/ (2 * r = den /\ q % 2 = 1) THEN q + 1 ELSE q

\* `n as f64` for an integer n
as_f64(n) ==
    LET mag == Abs(n)
        drop == IF BitLen(mag) > F64MantissaBits THEN BitLen(mag) - F64MantissaBits ELSE 0
        kept == RoundHalfEven(mag, Pow2(drop)) * Pow2(drop)
    IN [num |-> IF n < 0 THEN 0 - kept ELSE kept, shift |-> 0]

\* the e with 2^e <= x / b < 2^(e+1), for x, b > 0
RECURSIVE FloorLog2(_, _, _)
FloorLog2(x, b, e) ==
    IF x >= b
    THEN IF x >= 2 * b THEN FloorLog2(x, 2 * b, e + 1) ELSE e
    ELSE FloorLog2(2 * x, b, e - 1)

\* a / b in f64 for integer-valued a and b, b > 0
f64_div(a, b) ==
    LET x == Abs(a.num)
        e == FloorLog2(x, b.num, 0)
        k == F64MantissaBits - 1 - e
        m == IF k >= 0 THEN RoundHalfEven(x * Pow2(k), b.num)
             ELSE RoundHalfEven(x, b.num * Pow2(0 - k))
        val == IF k >= 0 THEN [num |-> m, shift |-> k]
               ELSE [num |-> m * Pow2(0 - k), shift |-> 0]
    IN IF x = 0 THEN [num |-> 0, shift |-> 0]
       ELSE IF a.num < 0 THEN [val EXCEPT !.num = 0 - val.num] ELSE val

\* f64::ceil
f64_ceil(f) ==
    IF f.num >= 0
    THEN [num |-> (f.num + Pow2(f.shift) - 1) \div Pow2(f.shift), shift |-> 0]
    ELSE [num |-> 0 - (Abs(f.num) \div Pow2(f.shift)), shift |-> 0]

\* `f as u32` for an integer-valued f: the cast saturates
as_u32(f) ==
    IF f.num < 0 THEN 0 ELSE IF f.num > U32Max THEN U32Max ELSE f.num

\* lines 94-98
total_pages(total_count, per_page) ==
    IF per_page > 0
    THEN as_u32(f64_ceil(f64_div(as_f64(total_count), as_f64(per_page))))
    ELSE 0

\* lines 93-107
SearchResult_new(items, total_count, page, per_page) ==
    [items |-> items, total_count |-> total_count, page |-> page,
     per_page |-> per_page, total_pages |-> total_pages(total_count, per_page)]

\* u32 `a + b`: a build with overflow checks panics when the sum does not fit,
\* a build without them wraps
u32_add(a, b, overflow_checks) ==
    [panic |-> a + b > U32Max /\ overflow_checks, v |-> (a + b) % Pow2(U32Bits)]

\* search.rs 110-112: self.page + 1 < self.total_pages
has_next_page(self, overflow_checks) ==
    LET sum == u32_add(self.page, 1, overflow_checks)
    IN IF sum.panic THEN "panic"
       ELSE IF sum.v < self.total_pages THEN "true" ELSE "false"

(***************************************************************************)
(* The stored table.  A row keeps the columns the statements read or       *)
(* write: deleted_at (0 is NULL), updated_at, and one value per column of  *)
(* the entity's field lists.                                               *)
(***************************************************************************)
Ids == 1..MaxId
NoRow == [stored |-> FALSE, deleted_at |-> 0, updated_at |-> 0, data |-> <<>>]
EmptyTable == [i \in Ids |-> NoRow]

\* a completed call: the operation, its arguments, what it returned (ret, with
\* total_count and items for searches), its error, the statements it executed in
\* order, the table before it, whether the call completed just before it was the
\* same operation on the same id returning true, and for a search the number of
\* rows its conditions matched when its items were fetched
NoCall ==
    [op |-> "none", id |-> 0, params |-> DefaultParams, ret |-> "none",
     err |-> "none", execs |-> <<>>, pre |-> EmptyTable, again |-> FALSE,
     total_count |-> 0, items |-> <<>>, matched |-> 0]

MaxCallers == 1
Callers == 1..MaxCallers
Idle == [busy |-> FALSE, params |-> DefaultParams, total_count |-> 0]

NotBuilt ==
    [op |-> "none", conditions |-> <<>>, count_query |-> <<>>,
     main_query |-> <<>>, bind_values |-> <<>>]

NoBackend ==
    [fn |-> "none", table |-> "users", columns |-> <<>>, conditions |-> <<>>,
     limit |-> None, offset |-> None, flag |-> FALSE, out |-> <<>>]

NoPageIn == [total_count |-> 0, page |-> 0, per_page |-> 0]
NoPage == [made |-> FALSE, result |-> SearchResult_new(<<>>, 0, 0, 0), next |-> "none"]

(***************************************************************************)
(* The database executing the statements (the driver collaborator).        *)
(***************************************************************************)
Columns(m) ==
    {m.searchable_fields[i] : i \in 1..Len(m.searchable_fields)}
    \cup {m.filterable_fields[i] : i \in 1..Len(m.filterable_fields)}

\* what create() is given to store: a value for every column
CreateInputs(m) == {[c \in Columns(m) |-> <<"x">>]}

Active(row) == row.stored /\ row.deleted_at = 0
SoftDeleted(row) == row.stored /\ row.deleted_at # 0

\* ILIKE compares without regard to case
lower(c) == IF c = "A" THEN "a" ELSE c
lower_str(v) == [i \in 1..Len(v) |-> lower(v[i])]

\* value ILIKE '%q%' for a q without wildcards: q occurs in value
ilike(value, pattern) ==
    LET q == lower_str(SubSeq(pattern, 2, Len(pattern) - 1))
        v == lower_str(value)
    IN \E i \in 1..(Len(v) - Len(q) + 1) : SubSeq(v, i, i + Len(q) - 1) = q

\* one condition of a WHERE clause on one row, with the bound values
condition_holds(row, cond, binds) ==
    IF cond = <<Id("deleted_at"), Kw(" IS NULL")>> THEN row.deleted_at = 0
    ELSE IF cond = <<Id("deleted_at"), Kw(" IS NOT NULL")>> THEN row.deleted_at # 0
    ELSE IF cond[1] = Kw("(")
    THEN \E i \in 1..Len(cond) :
            /\ cond[i].k = "id"
            /\ ilike(row.data[cond[i].s], binds[cond[i + 2].n])
    ELSE row.data[cond[1].s] = binds[cond[3].n]

\* the ids of the rows a WHERE clause selects
matching(table, conditions, binds) ==
    {i \in Ids :
        /\ table[i].stored
        /\ \A c \in 1..Len(conditions) : condition_holds(table[i], conditions[c], binds)}

\* a set of ids in ascending order
RECURSIVE ascending(_)
ascending(S) ==
    IF S = {} THEN <<>>
    ELSE LET lo == CHOOSE x \in S : \A y \in S : x <= y
         IN <<lo>> \o ascending(S \ {lo})

reverse(q) == [i \in 1..Len(q) |-> q[Len(q) + 1 - i]]

\* SELECT COUNT(*) FROM t WHERE ...
exec_count(table, conditions, binds) == Cardinality(matching(table, conditions, binds))

\* SELECT * FROM t WHERE ... ORDER BY id ASC|DESC LIMIT l OFFSET o
exec_fetch(table, conditions, binds, order, limit, off) ==
    LET sorted == IF order = "ASC" THEN ascending(matching(table, conditions, binds))
                  ELSE reverse(ascending(matching(table, conditions, binds)))
        hi == IF off + limit < Len(sorted) THEN off + limit ELSE Len(sorted)
    IN SubSeq(sorted, off + 1, hi)

(***************************************************************************)
(* The repository's operations as single statements on the table.          *)
(***************************************************************************)
\* lines 46-53: the text of the statement of find_by_id()
find_by_id_query(m) ==
    IF m.soft_delete_enabled
    THEN <<Kw("SELECT * FROM "), Id(m.table_name), Kw(" WHERE "), Id("id"), Kw(" = "),
           placeholder(1), Kw(" AND "), Id("deleted_at"), Kw(" IS NULL")>>
    ELSE <<Kw("SELECT * FROM "), Id(m.table_name), Kw(" WHERE "), Id("id"), Kw(" = "),
           placeholder(1)>>

\* lines 64-71: the text of the statement of find_all()
find_all_query(m) ==
    IF m.soft_delete_enabled
    THEN <<Kw("SELECT * FROM "), Id(m.table_name), Kw(" WHERE "), Id("deleted_at"),
           Kw(" IS NULL"), Kw(" ORDER BY "), Id("id")>>
    ELSE <<Kw("SELECT * FROM "), Id(m.table_name), Kw(" ORDER BY "), Id("id")>>

\* lines 46-53: SELECT * FROM t WHERE id = $1 [AND deleted_at IS NULL]
find_by_id_rows(m, table, id) ==
    {i \in Ids : /\ i = id /\ table[i].stored
                 /\ m.soft_delete_enabled => table[i].deleted_at = 0}

\* find_all_rows without the deleted_at condition
find_all_rows_unscoped(m, table) == ascending({i \in Ids : table[i].stored})

\* lines 64-71: SELECT * FROM t [WHERE deleted_at IS NULL] ORDER BY id
find_all_rows(m, table) ==
    ascending({i \in Ids : /\ table[i].stored
                           /\ m.soft_delete_enabled => table[i].deleted_at = 0})

\* delete_affected without the `AND deleted_at IS NULL` guard
delete_affected_unguarded(m, table, id) == {i \in Ids : i = id /\ table[i].stored}

\* lines 81-85: the rows the statement of delete() affects
delete_affected(m, table, id) ==
    IF m.soft_delete_enabled
    THEN {i \in Ids : i = id /\ table[i].stored /\ table[i].deleted_at = 0}
    ELSE {i \in Ids : i = id /\ table[i].stored}

\* delete_table removing the row on a soft-delete entity too
delete_table_remove(m, table, id, t) ==
    [i \in Ids |-> IF i \in delete_affected(m, table, id) THEN NoRow ELSE table[i]]

\* lines 81-85: the table after the statement of delete()
delete_table(m, table, id, t) ==
    IF m.soft_delete_enabled
    THEN [i \in Ids |->
            IF i \in delete_affected(m, table, id)
            THEN [table[i] EXCEPT !.deleted_at = t, !.updated_at = t]
            ELSE table[i]]
    ELSE [i \in Ids |-> IF i \in delete_affected(m, table, id) THEN NoRow ELSE table[i]]

\* restore_affected with the statement guarded by `deleted_at IS NOT NULL`
restore_affected_deleted(table, id) ==
    {i \in Ids : i = id /\ table[i].stored /\ table[i].deleted_at # 0}

\* lines 201-204: UPDATE t SET deleted_at = NULL, updated_at = NOW() WHERE id = $1
restore_affected(table, id) == {i \in Ids : i = id /\ table[i].stored}

\* restore_table that refreshes updated_at and leaves deleted_at as it is
restore_table_keep(table, id, t) ==
    [i \in Ids |->
        IF i \in restore_affected(table, id)
        THEN [table[i] EXCEPT !.updated_at = t]
        ELSE table[i]]

restore_table(table, id, t) ==
    [i \in Ids |->
        IF i \in restore_affected(table, id)
        THEN [table[i] EXCEPT !.deleted_at = 0, !.updated_at = t]
        ELSE table[i]]

\* hard_delete_affected reporting the id whether a row is stored or not
hard_delete_affected_any(table, id) == {i \in Ids : i = id}

\* line 215: DELETE FROM t WHERE id = $1
hard_delete_affected(table, id) == {i \in Ids : i = id /\ table[i].stored}

\* hard_delete_table that marks the row deleted instead of removing it
hard_delete_table_soft(table, id) ==
    [i \in Ids |->
        IF i \in hard_delete_affected(table, id)
        THEN [table[i] EXCEPT !.deleted_at = 1]
        ELSE table[i]]

hard_delete_table(table, id) ==
    [i \in Ids |-> IF i \in hard_delete_affected(table, id) THEN NoRow ELSE table[i]]

(***************************************************************************)
(* Builder runs: search() and count() applied to every SearchParams of     *)
(* ParamsSet on every entity, up to the point where they execute.          *)
(***************************************************************************)
InitBuild ==
    /\ meta \in Entities
    /\ params \in ParamsSet
    /\ inserted \in insertion_orders(params.filters)
    /\ built = NotBuilt
    /\ db = EmptyTable /\ now = 1 /\ next_id = 1
    /\ pending = [c \in Callers |-> Idle]
    /\ last = NoCall
    /\ page_in = NoPageIn /\ page_out = NoPage
    /\ backend = NoBackend

BuildSearch(overflow_checks) ==
    /\ built.op = "none"
    /\ built' = IF offset_panics(params, overflow_checks)
                THEN [NotBuilt EXCEPT !.op = "panic"]
                ELSE [op |-> "search",
                      conditions |-> search_statements(meta, params).conditions,
                      count_query |-> search_statements(meta, params).count_query,
                      main_query |-> search_statements(meta, params).main_query,
                      bind_values |-> search_statements(meta, params).bind_values]
    /\ UNCHANGED <<meta, db, now, next_id, pending, last, params, inserted, page_in, page_out, backend>>

BuildCount ==
    /\ built.op = "none"
    /\ built' = [op |-> "count",
                 conditions |-> count_statement(meta, params).conditions,
                 count_query |-> count_statement(meta, params).count_query,
                 main_query |-> <<>>,
                 bind_values |-> count_statement(meta, params).bind_values]
    /\ UNCHANGED <<meta, db, now, next_id, pending, last, params, inserted, page_in, page_out, backend>>

NextBuild ==
    \/ \E overflow_checks \in BOOLEAN : BuildSearch(overflow_checks)
    \/ BuildCount

SpecBuild == InitBuild /\ [][NextBuild]_vars

(***************************************************************************)
(* Reading a built statement back.                                         *)
(***************************************************************************)
\* the placeholder indexes a text references
PlaceholdersIn(text) == {text[i].n : i \in {j \in 1..Len(text) : text[j].k = "ph"}}

\* the value the caller's filters hold for a key
FilterValueOf(p, key) ==
    p.filters[CHOOSE i \in 1..Len(p.filters) : p.filters[i][1] = key][2]

\* every placeholder of the text is bound to the value meant for it, and the
\* indexes never decrease from left to right
BoundAsMeant(text, binds, p) ==
    /\ PlaceholdersIn(text) = 1..Len(binds)
    /\ \A i \in 1..Len(text) :
          text[i].k = "ph" =>
             /\ text[i].n \in 1..Len(binds)
             /\ text[i-1] = Kw(" ILIKE ") =>
                   /\ text[i].n = 1
                   /\ p.query.some
                   /\ binds[text[i].n] = <<"%">> \o p.query.v \o <<"%">>
             /\ text[i-1] = Kw(" = ") =>
                   /\ text[i-2].k = "id"
                   /\ \E j \in 1..Len(p.filters) : p.filters[j][1] = text[i-2].s
                   /\ binds[text[i].n] = FilterValueOf(p, text[i-2].s)
             /\ text[i-1] \in {Kw(" ILIKE "), Kw(" = ")}
    /\ \A i, j \in 1..Len(text) :
          (i < j /\ text[i].k = "ph" /\ text[j].k = "ph") =>
             /\ text[i].n <= text[j].n
             /\ text[j-1] = Kw(" = ") => text[i].n < text[j].n

TextOf(op, m, p) ==
    IF op = "search"
    THEN LET c == search_conditions(m, p).conditions
         IN <<count_query(m, c), main_query(m, p, c)>>
    ELSE <<count_query(m, count_conditions(m, p).conditions), <<>> >>

BindsOf(op, m, p) ==
    IF op = "search" THEN search_conditions(m, p).bind_values
    ELSE count_conditions(m, p).bind_values

BuiltText == <<built.count_query, built.main_query>>

NonBlank(q) == q.some /\ Len(trim(q.v)) # 0

\* the query strings that differ from q only in the content of a non-blank string
QueryVariants(q) == IF NonBlank(q) THEN {r \in Queries : NonBlank(r)} ELSE {q}

\* the filters that differ from f only in values: same keys, same iteration order
FilterVariants(f) ==
    {g \in FilterMaps :
        Len(g) = Len(f) /\ \A i \in 1..Len(f) : g[i][1] = f[i][1]}

ValueVariants(p) ==
    {[p EXCEPT !.query = q, !.filters = f] :
        q \in QueryVariants(p.query), f \in FilterVariants(p.filters)}

ColumnsIn(text) == {text[i].s : i \in {j \in 3..Len(text) : text[j].k = "id"}}

\* the entity's own field lists and the fixed columns
AllowList(m) ==
    {m.searchable_fields[i] : i \in 1..Len(m.searchable_fields)}
    \cup {m.filterable_fields[i] : i \in 1..Len(m.filterable_fields)}
    \cup {"id", "deleted_at"}

\* C3: every column identifier in the text search() builds (text-search fields,
\* filter fields, the ORDER BY field) is in the entity's field lists or is id or
\* deleted_at.
C3_OnlyAllowListedColumns ==
    built.op = "search" =>
        /\ ColumnsIn(built.count_query) \subseteq AllowList(meta)
        /\ ColumnsIn(built.main_query) \subseteq AllowList(meta)

\* the texts an operation built: count() builds one, search() two
Texts == IF built.op = "search" THEN {built.count_query, built.main_query}
         ELSE {built.count_query}

Built == built.op \in {"search", "count"}

\* where a text mentions the deleted_at column
DeletedAtIn(text) == {i \in 1..Len(text) : text[i] = Id("deleted_at")}

\* the text opens its WHERE clause with `deleted_at <test>`
StartsWithScope(text, test) ==
    /\ Len(text) >= 5
    /\ SubSeq(text, 3, 5) = <<Kw(" WHERE "), Id("deleted_at"), Kw(test)>>
    /\ DeletedAtIn(text) = {4}

\* the number of conditions of a text that carry a placeholder: the text-search
\* group counts once
BoundConditions(text) ==
    Cardinality({i \in 1..Len(text) : text[i] = Kw(" = ")})
    + (IF \E i \in 1..Len(text) : text[i] = Kw(" ILIKE ") THEN 1 ELSE 0)

\* C12: search() and count() emit the scope condition only for a soft-delete
\* entity: `deleted_at IS NULL` for Active, `deleted_at IS NOT NULL` for Deleted,
\* nothing for All; it is the first condition, it holds no placeholder and binds
\* no value; without soft delete every scope yields the same text and values,
\* with no deleted_at condition.
C12_ScopeCondition ==
    Built =>
        /\ \A text \in Texts :
              /\ IF meta.soft_delete_enabled /\ params.scope = "Active"
                 THEN StartsWithScope(text, " IS NULL")
                 ELSE IF meta.soft_delete_enabled /\ params.scope = "Deleted"
                 THEN StartsWithScope(text, " IS NOT NULL")
                 ELSE DeletedAtIn(text) = {}
              /\ Len(built.bind_values) = BoundConditions(text)
              /\ PlaceholdersIn(text) = 1..Len(built.bind_values)
        /\ ~meta.soft_delete_enabled =>
              \A sc \in RecordScope :
                 /\ TextOf(built.op, meta, [params EXCEPT !.scope = sc]) = BuiltText
                 /\ BindsOf(built.op, meta, [params EXCEPT !.scope = sc]) = built.bind_values

C12_Witness ==
    /\ built.op = "count"
    /\ meta.soft_delete_enabled
    /\ params.scope = "Deleted"
    /\ Len(built.bind_values) = 3
    /\ StartsWithScope(built.count_query, " IS NOT NULL")

\* the text holds a text-search condition
HasTextSearch(text) == \E i \in 1..Len(text) : text[i] = Kw(" ILIKE ")

\* the query holds a character that is not whitespace
Usable(q) == q.some /\ \E i \in 1..Len(q.v) : q.v[i] # " "

\* the filter entries whose key the entity lists as filterable
Accepted(m, filters) ==
    {i \in 1..Len(filters) :
        \E j \in 1..Len(m.filterable_fields) : m.filterable_fields[j] = filters[i][1]}

\* C13: search() and count() emit a text-search condition iff the entity has
\* searchable fields and the query is present and holds a non-whitespace
\* character; when emitted, the first bound value is "%" + query + "%" with the
\* query as given; otherwise no value is bound for the query.
C13_TextSearchCondition ==
    Built =>
        \A text \in Texts :
           /\ HasTextSearch(text)
                 <=> (Len(meta.searchable_fields) # 0 /\ Usable(params.query))
           /\ HasTextSearch(text) =>
                 /\ built.bind_values[1] = <<"%">> \o params.query.v \o <<"%">>
                 /\ Len(built.bind_values)
                       = 1 + Cardinality(Accepted(meta, params.filters))
           /\ ~HasTextSearch(text) =>
                 Len(built.bind_values) = Cardinality(Accepted(meta, params.filters))

\* a whitespace-only query on an entity with searchable fields
C13_Witness ==
    /\ Built
    /\ Len(meta.searchable_fields) # 0
    /\ params.query = Some(<<" ", " ">>)
    /\ ~HasTextSearch(built.count_query)
    /\ built.bind_values = <<>>

\* the text holds the equality condition `field = $k` for some k
HasFilterOn(text, field) ==
    \E j \in 1..(Len(text) - 2) :
       text[j] = Id(field) /\ text[j + 1] = Kw(" = ") /\ text[j + 2].k = "ph"

\* the placeholder indexes of the equality conditions of a text
FilterPlaceholders(text) ==
    {text[j].n : j \in {i \in 2..Len(text) : text[i].k = "ph" /\ text[i - 1] = Kw(" = ")}}

\* C14: in search() and count() a filter entry produces an equality condition
\* iff its key is one of the entity's filterable fields; an entry with another
\* key produces no condition and no bound value and uses no placeholder index,
\* and no error arises from it; filters of unknown keys only leave a text with
\* no filter condition.
C14_UnknownFiltersDropped ==
    Built =>
        \A text \in Texts :
           LET accepted == Accepted(meta, params.filters)
               first == IF HasTextSearch(text) THEN 2 ELSE 1
           IN /\ \A i \in 1..Len(params.filters) :
                    HasFilterOn(text, params.filters[i][1]) <=> i \in accepted
              /\ Cardinality({j \in 1..Len(text) : text[j] = Kw(" = ")})
                    = Cardinality(accepted)
              /\ FilterPlaceholders(text) = first..(first + Cardinality(accepted) - 1)
              /\ Len(built.bind_values) = first - 1 + Cardinality(accepted)
              /\ accepted = {} => BoundConditions(text) = first - 1

\* two entries, one of an unknown key, and no usable query
C14_Witness ==
    /\ built.op = "search"
    /\ meta = User
    /\ params.scope = "Active"
    /\ ~Usable(params.query)
    /\ Len(params.filters) = 2
    /\ params.filters[1][1] = "bogus"
    /\ params.filters[2][1] = "status"
    /\ built.count_query =
          <<Kw("SELECT COUNT(*) FROM "), Id("users"), Kw(" WHERE "),
            Id("deleted_at"), Kw(" IS NULL"), Kw(" AND "),
            Id("status"), Kw(" = "), placeholder(1)>>

\* the fields of the equality conditions of a text, from left to right
FilterFields(text) ==
    LET pos == ascending({j \in 1..(Len(text) - 1) : text[j + 1] = Kw(" = ")})
    IN [k \in 1..Len(pos) |-> text[pos[k]].s]

\* the entries with a filterable key, in the order of `entries`
AcceptedIn(m, entries) ==
    SelectSeq(entries,
              LAMBDA e : \E j \in 1..Len(m.filterable_fields) : m.filterable_fields[j] = e[1])

\* the values bound for the filters: what follows the text-search pattern
FilterBinds(text) ==
    SubSeq(built.bind_values, IF HasTextSearch(text) THEN 2 ELSE 1, Len(built.bind_values))

\* C15: the filter conditions of the text, and their values among the bound
\* values, follow the order in which the caller inserted the entries into the
\* filters map.
C15_FiltersInInsertionOrder ==
    Built =>
        \A text \in Texts :
           /\ FilterFields(text)
                 = [k \in 1..Len(AcceptedIn(meta, inserted)) |-> AcceptedIn(meta, inserted)[k][1]]
           /\ FilterBinds(text)
                 = [k \in 1..Len(AcceptedIn(meta, inserted)) |-> AcceptedIn(meta, inserted)[k][2]]

\* the SearchParams that hold the same query, scope, paging and sorting as p
\* and the same filter entries, in a map of their own
SameEntries(p) ==
    {[p EXCEPT !.filters = g] : g \in insertion_orders(p.filters)}

\* C16: building from any SearchParams with the same query, the same filter
\* entries and the same scope, on the same entity, yields the same text and the
\* same bound values.
C16_AssemblyIsDeterministic ==
    Built =>
        \A q \in SameEntries(params) :
           /\ TextOf(built.op, meta, q) = BuiltText
           /\ BindsOf(built.op, meta, q) = built.bind_values

\* tables to run a statement on: every id is absent, or active with one value in
\* every column, or soft-deleted with another
SampleRows(m) ==
    {NoRow,
     [stored |-> TRUE, deleted_at |-> 0, updated_at |-> 1,
      data |-> [c \in Columns(m) |-> <<"x">>]],
     [stored |-> TRUE, deleted_at |-> 1, updated_at |-> 1,
      data |-> [c \in Columns(m) |-> <<"a">>]]}

SampleTables(m) == [Ids -> SampleRows(m)]

\* C17: the statement count(params) builds has the text and the bound values
\* of the count statement search(params) builds: the text-search placeholder is
\* $1, the filter placeholders start at $1 without a text-search condition and
\* at $2 with one; so on one table count(params) is the total_count of
\* search(params).
C17_CountMatchesSearch ==
    built.op = "count" =>
        /\ built.count_query = search_statements(meta, params).count_query
        /\ built.bind_values = search_statements(meta, params).bind_values
        /\ \A i \in 2..Len(built.count_query) :
              (built.count_query[i].k = "ph" /\ built.count_query[i - 1] = Kw(" ILIKE "))
                 => built.count_query[i].n = 1
        /\ LET first == IF HasTextSearch(built.count_query) THEN 2 ELSE 1
           IN FilterPlaceholders(built.count_query)
                 = first..(first + Cardinality(Accepted(meta, params.filters)) - 1)
        /\ \A table \in SampleTables(meta) :
              exec_count(table, built.conditions, built.bind_values)
                 = exec_count(table, search_statements(meta, params).conditions,
                              search_statements(meta, params).bind_values)

C17_Witness ==
    /\ built.op = "count"
    /\ HasTextSearch(built.count_query)
    /\ FilterPlaceholders(built.count_query) = {2, 3}
    /\ built.count_query = search_statements(meta, params).count_query

\* the part of a text from its WHERE keyword up to its ORDER BY keyword
WherePart(text) ==
    LET stop == {i \in 1..Len(text) : text[i] = Kw(" ORDER BY ")}
        hi == IF stop = {} THEN Len(text) ELSE (CHOOSE i \in stop : TRUE) - 1
    IN SubSeq(text, 3, hi)

\* the positions of a token in a text
PositionsOf(text, tok) == {i \in 1..Len(text) : text[i] = tok}

\* nothing of the SearchParams yields a condition on this entity
NoCondition ==
    /\ ~meta.soft_delete_enabled \/ params.scope = "All"
    /\ Len(meta.searchable_fields) = 0 \/ ~Usable(params.query)
    /\ Accepted(meta, params.filters) = {}

\* the tokens a condition may end with and begin with
ConditionEnds == {Kw(" IS NULL"), Kw(" IS NOT NULL"), Kw(")")}
ConditionStarts == {Kw("(")}

\* C18: in the texts of search() and count() the scope condition comes before
\* the text-search condition and both before the filter conditions, neighbours
\* are joined by ` AND `, and with no condition at all the text has no WHERE
\* clause.
C18_ConditionOrderAndWhere ==
    Built =>
        \A text \in Texts :
           LET w == WherePart(text)
               n == Cardinality(PositionsOf(w, Id("deleted_at")))
                    + Cardinality(PositionsOf(w, Kw("(")))
                    + Cardinality(PositionsOf(w, Kw(" = ")))
           IN /\ NoCondition <=> w = <<>>
              /\ ~NoCondition =>
                    /\ PositionsOf(w, Kw(" WHERE ")) = {1}
                    /\ Cardinality(PositionsOf(w, Kw(" AND "))) = n - 1
              /\ \A i \in PositionsOf(w, Kw(" AND ")) :
                    /\ w[i - 1] \in ConditionEnds \/ w[i - 1].k = "ph"
                    /\ w[i + 1] \in ConditionStarts \/ w[i + 1].k = "id"
              /\ \A i \in 2..Len(w) :
                    (w[i].k = "id" \/ w[i] = Kw("(")) =>
                        w[i - 1] \in {Kw(" WHERE "), Kw(" AND "), Kw("("), Kw(" OR ")}
              /\ \A i \in PositionsOf(w, Id("deleted_at")) :
                    /\ \A j \in PositionsOf(w, Kw("(")) : i < j
                    /\ \A j \in PositionsOf(w, Kw(" = ")) : i < j
              /\ \A i \in PositionsOf(w, Kw(")")) :
                    \A j \in PositionsOf(w, Kw(" = ")) : i < j
              /\ PositionsOf(w, Kw("TRUE")) = {}

\* nothing yields a condition although a query and a filter entry were given
C18_Witness ==
    /\ built.op = "search"
    /\ ~meta.soft_delete_enabled
    /\ params.query = Some(<<" ">>)
    /\ Len(params.filters) = 1
    /\ built.count_query = <<Kw("SELECT COUNT(*) FROM "), Id("posts")>>
    /\ built.main_query[3] = Kw(" ORDER BY ")

\* the last n tokens of a text
LastTokens(text, n) == SubSeq(text, Len(text) - n + 1, Len(text))

\* C19: search() builds a fetch statement for every page and per_page of the
\* u32 range, and the statement ends with ORDER BY <sort_field> <ASC|DESC>
\* LIMIT <per_page> OFFSET <page * per_page>: sort_field is id without a
\* sort_by, the direction follows sort_order, and the offset is the product of
\* page and per_page.
C19_OrderLimitOffset ==
    built.op \in {"search", "panic"} =>
        /\ built.op = "search"
        /\ LastTokens(built.main_query, 8) =
              <<Kw(" ORDER BY "),
                Id(IF params.sort_by.some THEN params.sort_by.v ELSE "id"),
                Kw(" "),
                Kw(IF params.sort_order = "Asc" THEN "ASC" ELSE "DESC"),
                Kw(" LIMIT "), Num(params.per_page),
                Kw(" OFFSET "), Num(params.page * params.per_page)>>

\* `(f1 ILIKE $p OR ... OR fk ILIKE $p)`, token by token
Disjunction(fields, p) ==
    <<Kw("(")>>
    \o [j \in 1..(4 * Len(fields) - 1) |->
           CASE (j - 1) % 4 = 0 -> Id(fields[(j - 1) \div 4 + 1])
             [] (j - 1) % 4 = 1 -> Kw(" ILIKE ")
             [] (j - 1) % 4 = 2 -> placeholder(p)
             [] (j - 1) % 4 = 3 -> Kw(" OR ")]
    \o <<Kw(")")>>

\* the text holds the group once, and no ILIKE outside it
HoldsDisjunction(text, fields, p) ==
    /\ \E a \in 1..Len(text) :
          /\ a + 4 * Len(fields) <= Len(text)
          /\ SubSeq(text, a, a + 4 * Len(fields)) = Disjunction(fields, p)
    /\ Cardinality(PositionsOf(text, Kw(" ILIKE "))) = Len(fields)
    /\ Cardinality(PositionsOf(text, Kw("("))) = 1
    /\ Cardinality(PositionsOf(text, Kw(")"))) = 1

\* the entity with only its first k searchable fields
FirstFields(m, k) == [m EXCEPT !.searchable_fields = SubSeq(@, 1, k)]

\* C26: a text-search condition over k >= 1 searchable fields is one
\* parenthesised disjunction (f1 ILIKE $p OR ... OR fk ILIKE $p) in the order
\* of searchable_fields, every field with the same placeholder, and one value
\* is bound for it whatever k is.
C26_OneBindForAllFields ==
    (Built /\ Usable(params.query)) =>
        \A k \in 1..Len(meta.searchable_fields) :
           LET m == FirstFields(meta, k)
               texts == TextOf(built.op, m, params)
           IN /\ HoldsDisjunction(texts[1], m.searchable_fields, 1)
              /\ built.op = "search" => HoldsDisjunction(texts[2], m.searchable_fields, 1)
              /\ BindsOf(built.op, m, params) = built.bind_values
              /\ built.bind_values[1] = <<"%">> \o params.query.v \o <<"%">>
              /\ k = Len(meta.searchable_fields) => texts = BuiltText

C26_Witness ==
    /\ built.op = "search"
    /\ meta = User
    /\ Usable(params.query)
    /\ Len(built.bind_values) = 1
    /\ HoldsDisjunction(built.main_query, <<"name", "email">>, 1)

(***************************************************************************)
(* Pagination runs: SearchResult::new on every total_count of the i64      *)
(* range, every per_page of the u32 range and the first and last pages.    *)
(***************************************************************************)
Pages == {0, 1, 2, U32Max}

InitPage ==
    /\ page_in \in [total_count : I64Min..I64Max, page : Pages, per_page : 0..U32Max]
    /\ page_out = NoPage
    /\ backend = NoBackend
    /\ meta = User /\ params = DefaultParams /\ inserted = <<>> /\ built = NotBuilt
    /\ db = EmptyTable /\ now = 1 /\ next_id = 1
    /\ pending = [c \in Callers |-> Idle]
    /\ last = NoCall

New ==
    /\ ~page_out.made
    /\ page_out' = [made |-> TRUE,
                    result |-> SearchResult_new(<<>>, page_in.total_count,
                                                page_in.page, page_in.per_page),
                    next |-> "none"]
    /\ UNCHANGED <<meta, db, now, next_id, pending, last, params, inserted, built, page_in, backend>>

\* has_next_page() called on the SearchResult, in a build with or without
\* overflow checks
HasNextPage(overflow_checks) ==
    /\ page_out.made
    /\ page_out.next = "none"
    /\ page_out' = [page_out EXCEPT !.next = has_next_page(page_out.result, overflow_checks)]
    /\ UNCHANGED <<meta, db, now, next_id, pending, last, params, inserted, built, page_in, backend>>

NextPage ==
    \/ New
    \/ \E overflow_checks \in BOOLEAN : HasNextPage(overflow_checks)

SpecPage == InitPage /\ [][NextPage]_vars

\* ceil(a / b) of the exact quotient, b > 0
CeilDiv(a, b) == 0 - ((0 - a) \div b)

\* C10: the total_pages of every SearchResult that SearchResult::new builds
\* equals ceil(total_count / per_page) when per_page > 0 and 0 when per_page = 0.
C10_TotalPagesIsCeil ==
    page_out.made =>
        page_out.result.total_pages =
            IF page_in.per_page > 0
            THEN CeilDiv(page_in.total_count, page_in.per_page)
            ELSE 0

\* C11: has_next_page() is true iff (page + 1) < total_pages, and that agrees
\* with (page + 1) * per_page < total_count, for every page, per_page and
\* total_count.
C11_HasNextPageAgrees ==
    page_out.next # "none" =>
        /\ page_out.next =
              IF page_in.page + 1 < page_out.result.total_pages THEN "true" ELSE "false"
        /\ (page_in.page + 1 < page_out.result.total_pages)
              <=> ((page_in.page + 1) * page_in.per_page < page_in.total_count)

(***************************************************************************)
(* Repository runs: callers issue the operations against one table.  Each  *)
(* operation is one statement, except search(), whose count statement and  *)
(* fetch statement are two steps other calls may come between.  `fault`    *)
(* is the driver failing the statement; a failed statement changes nothing.*)
(***************************************************************************)
\* what callers pass to search() and count()
RepoParams ==
    {[DefaultParams EXCEPT !.scope = sc] : sc \in RecordScope}
    \cup {[DefaultParams EXCEPT !.per_page = 1],
          [DefaultParams EXCEPT !.scope = "All", !.filters = << <<"status", <<"x">> >> >>]}

Init ==
    /\ meta \in {User, Post}
    /\ db = EmptyTable
    /\ now = 1
    /\ next_id = 1
    /\ pending = [c \in Callers |-> Idle]
    /\ last = NoCall
    /\ params = DefaultParams /\ inserted = <<>> /\ built = NotBuilt
    /\ page_in = NoPageIn /\ page_out = NoPage
    /\ backend = NoBackend

\* the record of a call that completes now
Call(op, id, ret, err, execs) ==
    [op |-> op, id |-> id, params |-> DefaultParams,
     ret |-> ret, err |-> err, execs |-> execs, pre |-> db,
     again |-> (last.op = op /\ last.id = id /\ last.ret = "true"),
     total_count |-> 0, items |-> <<>>, matched |-> 0]

Complete(call) == last' = call

\* one statement handed to the driver, and whether the driver failed it
Exec(stmt, fault) == [stmt |-> stmt, failed |-> fault]

\* a driver failure surfacing as another variant
from_sqlx_error_validation == "Validation"

\* RepositoryError::from(sqlx::Error) (error.rs 15-16)
from_sqlx_error == "Database"

\* the time passing between statements
Tick ==
    /\ now < MaxClock
    /\ now' = now + 1
    /\ UNCHANGED <<meta, db, next_id, pending, last, params, inserted, built, page_in, page_out, backend>>

\* create(data): INSERT ... RETURNING *
Create(data) ==
    /\ next_id <= MaxId
    /\ db' = [db EXCEPT ![next_id] =
                [stored |-> TRUE, deleted_at |-> 0, updated_at |-> now, data |-> data]]
    /\ next_id' = next_id + 1
    /\ Complete(Call("create", next_id, "some", "none", <<Exec("insert", FALSE)>>))
    /\ UNCHANGED <<meta, now, pending, params, inserted, built, page_in, page_out, backend>>

\* lines 45-60
FindById(id, fault) ==
    /\ Complete(
         IF fault
         THEN Call("find_by_id", id, "err", from_sqlx_error, <<Exec("select", TRUE)>>)
         ELSE Call("find_by_id", id,
                   IF find_by_id_rows(meta, db, id) # {} THEN "some" ELSE "none",
                   "none", <<Exec("select", FALSE)>>))
    /\ UNCHANGED <<meta, db, now, next_id, pending, params, inserted, built, page_in, page_out, backend>>

\* lines 63-77
FindAll(fault) ==
    /\ Complete(
         IF fault
         THEN Call("find_all", 0, "err", from_sqlx_error, <<Exec("select", TRUE)>>)
         ELSE [Call("find_all", 0, "rows", "none", <<Exec("select", FALSE)>>)
                 EXCEPT !.items = find_all_rows(meta, db)])
    /\ UNCHANGED <<meta, db, now, next_id, pending, params, inserted, built, page_in, page_out, backend>>

\* delete_result answering whether the id is stored
delete_result_stored(m, table, id) == IF table[id].stored THEN "true" ELSE "false"

\* line 93: Ok(result.rows_affected() > 0)
delete_result(m, table, id) ==
    IF Cardinality(delete_affected(m, table, id)) > 0 THEN "true" ELSE "false"

\* lines 80-94
Delete(id, fault) ==
    /\ db' = IF fault THEN db ELSE delete_table(meta, db, id, now)
    /\ Complete(
         IF fault
         THEN Call("delete", id, "err", from_sqlx_error, <<Exec("delete", TRUE)>>)
         ELSE Call("delete", id, delete_result(meta, db, id), "none",
                   <<Exec("delete", FALSE)>>))
    /\ UNCHANGED <<meta, now, next_id, pending, params, inserted, built, page_in, page_out, backend>>

\* restore() without its soft_delete_enabled check
restore_refused_never(m) == FALSE

\* lines 197-199: the check restore() makes before it builds its statement
restore_refused(m) == ~m.soft_delete_enabled

\* lines 193-211: what restore() returns when the driver does not fail
restore_result(m, table, id) ==
    IF restore_refused(m) THEN "Configuration"
    ELSE IF restore_affected(table, id) # {} THEN "some" ELSE "none"

\* lines 193-211
Restore(id, fault) ==
    /\ db' = IF fault \/ restore_refused(meta) THEN db ELSE restore_table(db, id, now)
    /\ Complete(
         IF restore_refused(meta)
         THEN Call("restore", id, "err", "Configuration", <<>>)
         ELSE IF fault
         THEN Call("restore", id, "err", from_sqlx_error, <<Exec("restore", TRUE)>>)
         ELSE Call("restore", id, restore_result(meta, db, id), "none",
                   <<Exec("restore", FALSE)>>))
    /\ UNCHANGED <<meta, now, next_id, pending, params, inserted, built, page_in, page_out, backend>>

\* line 221: Ok(result.rows_affected() > 0)
hard_delete_result(table, id) ==
    IF Cardinality(hard_delete_affected(table, id)) > 0 THEN "true" ELSE "false"

\* lines 214-222
HardDelete(id, fault) ==
    /\ db' = IF fault THEN db ELSE hard_delete_table(db, id)
    /\ Complete(
         IF fault
         THEN Call("hard_delete", id, "err", from_sqlx_error, <<Exec("hard_delete", TRUE)>>)
         ELSE Call("hard_delete", id, hard_delete_result(db, id), "none",
                   <<Exec("hard_delete", FALSE)>>))
    /\ UNCHANGED <<meta, now, next_id, pending, params, inserted, built, page_in, page_out, backend>>

\* count_result counting every stored row
count_result_stored(m, table, p) == Cardinality({i \in Ids : table[i].stored})

\* lines 225-282: what count() returns on a table when the driver does not fail
count_result(m, table, p) ==
    exec_count(table, count_statement(m, p).conditions, count_statement(m, p).bind_values)

\* lines 225-282
Count(p, fault) ==
    /\ Complete(
         IF fault
         THEN [Call("count", 0, "err", from_sqlx_error, <<Exec("count", TRUE)>>)
                 EXCEPT !.params = p]
         ELSE [Call("count", 0, "count", "none", <<Exec("count", FALSE)>>)
                 EXCEPT !.params = p, !.total_count = count_result(meta, db, p)])
    /\ UNCHANGED <<meta, db, now, next_id, pending, params, inserted, built, page_in, page_out, backend>>

\* lines 166-177: the answer of the count statement of search()
search_total_count(m, table, p) ==
    exec_count(table, search_statements(m, p).conditions,
               search_statements(m, p).bind_values)

\* lines 167-182: the rows the fetch statement of search() returns
search_items(m, table, p) ==
    exec_fetch(table, search_statements(m, p).conditions,
               search_statements(m, p).bind_values, sort_order(p), p.per_page, offset(p))

\* lines 97-177: search() up to and including its count statement
SearchCount(c, p, fault) ==
    /\ ~pending[c].busy
    /\ IF fault
       THEN /\ Complete([Call("search", 0, "err", from_sqlx_error, <<Exec("count", TRUE)>>)
                           EXCEPT !.params = p])
            /\ UNCHANGED pending
       ELSE /\ pending' = [pending EXCEPT ![c] =
                  [busy |-> TRUE, params |-> p,
                   total_count |-> search_total_count(meta, db, p)]]
            /\ UNCHANGED last
    /\ UNCHANGED <<meta, db, now, next_id, params, inserted, built, page_in, page_out, backend>>

\* search_completion with the count taken again when the items are fetched
search_completion_recount(m, table, pend, fault) ==
    LET p == pend.params
        result == SearchResult_new(search_items(m, table, p),
                                   search_total_count(m, table, p), p.page, p.per_page)
    IN IF fault
       THEN [Call("search", 0, "err", from_sqlx_error,
                  <<Exec("count", FALSE), Exec("fetch", TRUE)>>)
               EXCEPT !.params = p]
       ELSE [Call("search", 0, "result", "none",
                  <<Exec("count", FALSE), Exec("fetch", FALSE)>>)
               EXCEPT !.params = p,
                      !.total_count = result.total_count,
                      !.items = result.items,
                      !.matched = search_total_count(m, table, p)]

\* lines 179-190: what search() returns once its fetch statement has run
search_completion(m, table, pend, fault) ==
    LET p == pend.params
        result == SearchResult_new(search_items(m, table, p), pend.total_count,
                                   p.page, p.per_page)
    IN IF fault
       THEN [Call("search", 0, "err", from_sqlx_error,
                  <<Exec("count", FALSE), Exec("fetch", TRUE)>>)
               EXCEPT !.params = p]
       ELSE [Call("search", 0, "result", "none",
                  <<Exec("count", FALSE), Exec("fetch", FALSE)>>)
               EXCEPT !.params = p,
                      !.total_count = result.total_count,
                      !.items = result.items,
                      !.matched = search_total_count(m, table, p)]

\* lines 179-190: the fetch statement of search() and the SearchResult
SearchFetch(c, fault) ==
    /\ pending[c].busy
    /\ pending' = [pending EXCEPT ![c] = Idle]
    /\ Complete(search_completion(meta, db, pending[c], fault))
    /\ UNCHANGED <<meta, db, now, next_id, params, inserted, built, page_in, page_out, backend>>

Next ==
    \/ Tick
    \/ \E data \in CreateInputs(meta) : Create(data)
    \/ \E id \in Ids, fault \in BOOLEAN : FindById(id, fault)
    \/ \E fault \in BOOLEAN : FindAll(fault)
    \/ \E id \in Ids, fault \in BOOLEAN : Delete(id, fault)
    \/ \E id \in Ids, fault \in BOOLEAN : Restore(id, fault)
    \/ \E id \in Ids, fault \in BOOLEAN : HardDelete(id, fault)
    \/ \E p \in RepoParams, fault \in BOOLEAN : Count(p, fault)
    \/ \E c \in Callers, p \in RepoParams, fault \in BOOLEAN : SearchCount(c, p, fault)
    \/ \E c \in Callers, fault \in BOOLEAN : SearchFetch(c, fault)

Spec == Init /\ [][Next]_vars

(***************************************************************************)
(* Properties of the repository runs.                                      *)
(***************************************************************************)
NoFailure(call) == \A i \in 1..Len(call.execs) : ~call.execs[i].failed

InSeq(q, x) == \E i \in 1..Len(q) : q[i] = x

ScopeParams(sc) == [DefaultParams EXCEPT !.scope = sc]

\* C4: on a soft-delete entity, delete(id) on an existing active row returns
\* true, and the same delete(id) called again right after it returns false, raises
\* no error and leaves the table as the first call left it (deleted_at and
\* updated_at included).
C4_SecondDeleteIsNoOp ==
    (meta.soft_delete_enabled /\ last.op = "delete" /\ NoFailure(last)) =>
        /\ Active(last.pre[last.id]) => last.ret = "true"
        /\ last.again =>
              /\ last.ret = "false"
              /\ last.err = "none"
              /\ db = last.pre

C4_Witness ==
    /\ meta.soft_delete_enabled
    /\ last.op = "delete" /\ last.again /\ NoFailure(last)
    /\ last.ret = "false"
    /\ SoftDeleted(db[last.id])
    /\ now > db[last.id].deleted_at

\* C5: on a soft-delete entity, once delete(id) has returned true, find_by_id(id)
\* returns none and search with scope Deleted returns that row and only
\* soft-deleted rows; once a following restore(id) has returned the row,
\* find_by_id(id) returns it again.
C5_DeleteHidesRestoreReveals ==
    meta.soft_delete_enabled =>
        /\ (last.op = "delete" /\ last.ret = "true") =>
              /\ find_by_id_rows(meta, db, last.id) = {}
              /\ InSeq(search_items(meta, db, ScopeParams("Deleted")), last.id)
        /\ \A i \in Ids :
              InSeq(search_items(meta, db, ScopeParams("Deleted")), i) => SoftDeleted(db[i])
        /\ (last.op = "restore" /\ last.ret = "some") =>
              find_by_id_rows(meta, db, last.id) = {last.id}

C5_Witness ==
    /\ meta.soft_delete_enabled
    /\ last.op = "restore" /\ last.ret = "some"
    /\ SoftDeleted(last.pre[last.id])
    /\ find_by_id_rows(meta, last.pre, last.id) = {}

\* C6: on an entity without soft delete, restore(id) returns the Configuration
\* error for every id, executes no statement and leaves the table unchanged.
C6_RestoreRefusedWithoutSoftDelete ==
    (~meta.soft_delete_enabled /\ last.op = "restore") =>
        /\ last.ret = "err"
        /\ last.err = "Configuration"
        /\ last.execs = <<>>
        /\ db = last.pre

C6_Witness ==
    /\ ~meta.soft_delete_enabled
    /\ last.op = "restore"
    /\ last.pre[last.id].stored
    /\ last.err = "Configuration"

\* no read of the repository returns or counts the id, under any scope
GoneFromReads(id) ==
    /\ find_by_id_rows(meta, db, id) = {}
    /\ ~InSeq(find_all_rows(meta, db), id)
    /\ \A sc \in RecordScope :
          /\ ~InSeq(search_items(meta, db, ScopeParams(sc)), id)
          /\ id \notin matching(db, count_statement(meta, ScopeParams(sc)).conditions,
                                count_statement(meta, ScopeParams(sc)).bind_values)

\* C7 as claimed: hard_delete(id) returns true iff a row with that id was stored,
\* whatever the soft-delete setting and the row's state; afterwards no read
\* returns the id under any scope, and restore(id) returns none.
C7_HardDeleteThenRestoreNone ==
    (last.op = "hard_delete" /\ NoFailure(last)) =>
        /\ last.ret = "true" <=> last.pre[last.id].stored
        /\ ~db[last.id].stored
        /\ GoneFromReads(last.id)
        /\ restore_result(meta, db, last.id) = "none"

\* C7, amended: as claimed, except that restore(id) returns none only on a
\* soft-delete entity; on an entity without soft delete it returns the
\* Configuration error.
C7_HardDeleteRemoves ==
    (last.op = "hard_delete" /\ NoFailure(last)) =>
        /\ last.ret = "true" <=> last.pre[last.id].stored
        /\ ~db[last.id].stored
        /\ GoneFromReads(last.id)
        /\ restore_result(meta, db, last.id) =
              IF meta.soft_delete_enabled THEN "none" ELSE "Configuration"

C7_Witness ==
    /\ meta.soft_delete_enabled
    /\ last.op = "hard_delete" /\ last.ret = "true"
    /\ SoftDeleted(last.pre[last.id])

\* C8: search() takes total_count from its count statement and its items from a
\* fetch statement executed later on the table as it is then, with nothing
\* holding the table still between the two: the count is neither taken again nor
\* checked when the items are fetched.
C8_CountAndFetchAreSeparate ==
    [][\A c \in Callers :
          /\ (~pending[c].busy /\ pending'[c].busy) =>
                pending'[c].total_count = search_total_count(meta, db, pending'[c].params)
          /\ (pending[c].busy /\ ~pending'[c].busy /\ last'.err = "none") =>
                /\ last'.total_count = pending[c].total_count
                /\ last'.items = search_items(meta, db, pending[c].params)
                /\ last'.matched = search_total_count(meta, db, pending[c].params)
      ]_vars

\* a search whose total_count differs from the number of rows that matched its
\* conditions when its items were fetched
C8_Witness ==
    /\ last.op = "search" /\ last.err = "none"
    /\ last.total_count # last.matched

\* C9: a driver failure in find_by_id, find_all, delete, search, restore,
\* hard_delete or count comes back as the Database error with no result; every
\* statement is attempted once and nothing is executed after a failure, so a
\* failed count statement of search() ends the call before its fetch statement
\* and a failed fetch statement leaves no partial SearchResult.
C9_DriverFailuresAreDatabaseErrors ==
    last.op \in {"find_by_id", "find_all", "delete", "search", "restore",
                 "hard_delete", "count"} =>
        /\ ~NoFailure(last) =>
              /\ last.err = "Database"
              /\ last.ret = "err"
              /\ last.items = <<>>
              /\ last.total_count = 0
        /\ \A i, j \in 1..Len(last.execs) :
              i # j => last.execs[i].stmt # last.execs[j].stmt
        /\ \A i \in 1..Len(last.execs) : last.execs[i].failed => i = Len(last.execs)
        /\ last.op = "search" =>
              /\ last.execs[1].stmt = "count"
              /\ Len(last.execs) = 2 => last.execs[2].stmt = "fetch"
              /\ last.err = "none" => Len(last.execs) = 2

C9_Witness ==
    /\ last.op = "search"
    /\ Len(last.execs) = 2
    /\ last.execs[2].failed
    /\ last.err = "Database"

\* the ids find_by_id and find_all are to return on this table
Visible(i) == db[i].stored /\ (meta.soft_delete_enabled => db[i].deleted_at = 0)

\* C20: after any calls, find_by_id(id) returns a row iff the row of that id is
\* stored and, on a soft-delete entity, not soft-deleted; find_all returns
\* exactly those rows in ascending order of id, each once; on an entity without
\* soft delete both statements carry no deleted_at condition and return every
\* stored row.
C20_ReadsSkipSoftDeleted ==
    /\ (last.op = "find_by_id" /\ NoFailure(last)) =>
          /\ last.ret \in {"some", "none"}
          /\ last.ret = "some" <=> Visible(last.id)
          /\ Cardinality(find_by_id_rows(meta, db, last.id)) <= 1
    /\ (last.op = "find_all" /\ NoFailure(last)) =>
          /\ \A i \in Ids : InSeq(last.items, i) <=> Visible(i)
          /\ \A j, k \in 1..Len(last.items) : j < k => last.items[j] < last.items[k]
          /\ \A j \in 1..Len(last.items) :
                meta.soft_delete_enabled => ~SoftDeleted(db[last.items[j]])
    /\ DeletedAtIn(find_by_id_query(meta)) # {} <=> meta.soft_delete_enabled
    /\ DeletedAtIn(find_all_query(meta)) # {} <=> meta.soft_delete_enabled

\* find_all on a table holding a soft-deleted row and an active row
C20_Witness ==
    /\ meta.soft_delete_enabled
    /\ last.op = "find_all" /\ NoFailure(last)
    /\ \E i, j \in Ids : SoftDeleted(db[i]) /\ Active(db[j]) /\ last.items = <<j>>

(***************************************************************************)
(* PostgresBackend (backends/postgres.rs): the statement builders.         *)
(* Table and column names are identifiers, conditions are caller strings.  *)
(***************************************************************************)
Str(s) == [k |-> "str", s |-> s, n |-> 0]

\* format!("${}", i) as the builders write it themselves (lines 68, 89, 95)
dollar(i) == [k |-> "ph", s |-> "$", n |-> i]

\* lines 42-46: "*" for an empty list, else columns.join(", ")
columns_str(columns) ==
    IF Len(columns) = 0 THEN <<Kw("*")>>
    ELSE join([i \in 1..Len(columns) |-> <<Id(columns[i])>>], Kw(", "))

\* build_select_query that writes OFFSET only next to a LIMIT
build_select_query_paired(table, columns, conditions, limit, off) ==
    <<Kw("SELECT ")>> \o columns_str(columns) \o <<Kw(" FROM "), Id(table)>>
    \o (IF Len(conditions) # 0
        THEN <<Kw(" WHERE ")>>
             \o join([i \in 1..Len(conditions) |-> <<Str(conditions[i])>>], Kw(" AND "))
        ELSE <<>>)
    \o (IF limit.some
        THEN <<Kw(" LIMIT "), Num(limit.v)>>
             \o (IF off.some THEN <<Kw(" OFFSET "), Num(off.v)>> ELSE <<>>)
        ELSE <<>>)

\* lines 35-64 (`off` is the parameter `offset`)
build_select_query(table, columns, conditions, limit, off) ==
    <<Kw("SELECT ")>> \o columns_str(columns) \o <<Kw(" FROM "), Id(table)>>
    \o (IF Len(conditions) # 0
        THEN <<Kw(" WHERE ")>>
             \o join([i \in 1..Len(conditions) |-> <<Str(conditions[i])>>], Kw(" AND "))
        ELSE <<>>)
    \o (IF limit.some THEN <<Kw(" LIMIT "), Num(limit.v)>> ELSE <<>>)
    \o (IF off.some THEN <<Kw(" OFFSET "), Num(off.v)>> ELSE <<>>)

\* build_insert_query numbering its placeholders from $0
build_insert_query_from_zero(table, columns, returning) ==
    LET placeholders == [i \in 1..Len(columns) |-> <<dollar(i - 1)>>]
    IN <<Kw("INSERT INTO "), Id(table), Kw(" (")>>
       \o join([i \in 1..Len(columns) |-> <<Id(columns[i])>>], Kw(", "))
       \o <<Kw(") VALUES (")>>
       \o join(placeholders, Kw(", "))
       \o <<Kw(")")>>
       \o (IF returning THEN <<Kw(" RETURNING *")>> ELSE <<>>)

\* lines 67-82
build_insert_query(table, columns, returning) ==
    LET placeholders == [i \in 1..Len(columns) |-> <<dollar(i)>>]
    IN <<Kw("INSERT INTO "), Id(table), Kw(" (")>>
       \o join([i \in 1..Len(columns) |-> <<Id(columns[i])>>], Kw(", "))
       \o <<Kw(") VALUES (")>>
       \o join(placeholders, Kw(", "))
       \o <<Kw(")")>>
       \o (IF returning THEN <<Kw(" RETURNING *")>> ELSE <<>>)

\* build_update_query taking $1 for the id
build_update_query_id_first(table, columns, returning) ==
    LET set_clauses == [i \in 1..Len(columns) |->
                           <<Id(columns[i]), Kw(" = "), dollar(i)>>]
    IN <<Kw("UPDATE "), Id(table), Kw(" SET ")>>
       \o join(set_clauses, Kw(", "))
       \o <<Kw(" WHERE id = "), dollar(1)>>
       \o (IF returning THEN <<Kw(" RETURNING *")>> ELSE <<>>)

\* lines 85-102
build_update_query(table, columns, returning) ==
    LET set_clauses == [i \in 1..Len(columns) |->
                           <<Id(columns[i]), Kw(" = "), dollar((i - 1) + 1)>>]
    IN <<Kw("UPDATE "), Id(table), Kw(" SET ")>>
       \o join(set_clauses, Kw(", "))
       \o <<Kw(" WHERE id = "), dollar(Len(columns) + 1)>>
       \o (IF returning THEN <<Kw(" RETURNING *")>> ELSE <<>>)

\* build_delete_query whose UPDATE lacks the deleted_at guard
build_delete_query_unguarded(table, soft_delete) ==
    IF soft_delete
    THEN <<Kw("UPDATE "), Id(table),
           Kw(" SET deleted_at = NOW(), updated_at = NOW() WHERE id = "), placeholder(1)>>
    ELSE <<Kw("DELETE FROM "), Id(table), Kw(" WHERE id = "), placeholder(1)>>

\* lines 105-114
build_delete_query(table, soft_delete) ==
    IF soft_delete
    THEN <<Kw("UPDATE "), Id(table),
           Kw(" SET deleted_at = NOW(), updated_at = NOW() WHERE id = "), placeholder(1),
           Kw(" AND deleted_at IS NULL")>>
    ELSE <<Kw("DELETE FROM "), Id(table), Kw(" WHERE id = "), placeholder(1)>>

\* repository.rs 81-85: the text of the statement of delete()
delete_query(m) ==
    IF m.soft_delete_enabled
    THEN <<Kw("UPDATE "), Id(m.table_name),
           Kw(" SET deleted_at = NOW(), updated_at = NOW() WHERE id = "), placeholder(1),
           Kw(" AND deleted_at IS NULL")>>
    ELSE <<Kw("DELETE FROM "), Id(m.table_name), Kw(" WHERE id = "), placeholder(1)>>

\* the inputs of the builder calls
MaxColumns == 2
BackendTables == {"users", "posts"}
BackendColumns == {"name", "email"}
BackendConditions == {"active = true", "age > 18"}
BackendLimits == {None, Some(10)}
BackendOffsets == {None, Some(20)}

InitBackend ==
    /\ backend \in
          [fn : {"none"}, table : BackendTables,
           columns : SeqsUpTo(BackendColumns, MaxColumns),
           conditions : SeqsUpTo(BackendConditions, MaxColumns),
           limit : BackendLimits, offset : BackendOffsets,
           flag : BOOLEAN, out : {<<>>}]
    /\ meta = User /\ params = DefaultParams /\ inserted = <<>> /\ built = NotBuilt
    /\ db = EmptyTable /\ now = 1 /\ next_id = 1
    /\ pending = [c \in Callers |-> Idle]
    /\ last = NoCall
    /\ page_in = NoPageIn /\ page_out = NoPage

\* a builder call: the text it returns for the inputs drawn
BackendCall(fn, out) ==
    /\ backend.fn = "none"
    /\ backend' = [backend EXCEPT !.fn = fn, !.out = out]
    /\ UNCHANGED <<meta, db, now, next_id, pending, last, params, inserted, built,
                   page_in, page_out>>

BuildSelect ==
    BackendCall("select",
                build_select_query(backend.table, backend.columns, backend.conditions,
                                   backend.limit, backend.offset))

\* a sequence with a separator between neighbours
Interleave(q, sep) ==
    [i \in 1..(2 * Len(q) - 1) |-> IF i % 2 = 1 THEN q[(i + 1) \div 2] ELSE sep]

Names(q) == [i \in 1..Len(q) |-> Id(q[i])]

\* C21: build_select_query returns SELECT <columns, or * for none> FROM <table>,
\* then WHERE and the conditions joined by AND iff there are conditions, then
\* LIMIT n iff a limit is given, then OFFSET n iff an offset is given, each
\* whatever the others are.
C21_SelectQueryShape ==
    backend.fn = "select" =>
        backend.out =
            <<Kw("SELECT ")>>
            \o (IF backend.columns = <<>> THEN <<Kw("*")>>
                ELSE Interleave(Names(backend.columns), Kw(", ")))
            \o <<Kw(" FROM "), Id(backend.table)>>
            \o (IF backend.conditions = <<>> THEN <<>>
                ELSE <<Kw(" WHERE ")>>
                     \o Interleave([i \in 1..Len(backend.conditions) |->
                                       Str(backend.conditions[i])], Kw(" AND ")))
            \o (IF backend.limit = None THEN <<>>
                ELSE <<Kw(" LIMIT "), Num(backend.limit.v)>>)
            \o (IF backend.offset = None THEN <<>>
                ELSE <<Kw(" OFFSET "), Num(backend.offset.v)>>)

\* an offset without a limit, and no columns
C21_Witness ==
    /\ backend.fn = "select"
    /\ backend.columns = <<>> /\ backend.limit = None /\ backend.offset = Some(20)
    /\ Len(backend.conditions) = 2
    /\ backend.out[Len(backend.out) - 1] = Kw(" OFFSET ")
    /\ backend.out[2] = Kw("*")

BuildInsert ==
    BackendCall("insert", build_insert_query(backend.table, backend.columns, backend.flag))

BuildUpdate ==
    BackendCall("update", build_update_query(backend.table, backend.columns, backend.flag))

BuildDelete ==
    BackendCall("delete", build_delete_query(backend.table, backend.flag))

NextBackend ==
    \/ BuildSelect
    \/ BuildInsert
    \/ BuildUpdate
    \/ BuildDelete

SpecBackend == InitBackend /\ [][NextBackend]_vars

\* $1, ..., $n as placeholder(k) returns them
PlaceholdersTo(n) == [i \in 1..n |-> placeholder(i)]

\* the placeholder tokens of a text, from left to right
PlaceholderSeq(text) ==
    LET pos == ascending({i \in 1..Len(text) : text[i].k = "ph"})
    IN [j \in 1..Len(pos) |-> text[pos[j]]]

\* C22: build_insert_query returns INSERT INTO <table> (<columns>) VALUES
\* (<placeholders>) with one placeholder per column, $1..$n in column order,
\* each the token placeholder(k) returns, and RETURNING * at the end iff
\* returning is true.
C22_InsertQueryShape ==
    backend.fn = "insert" =>
        /\ backend.out =
              <<Kw("INSERT INTO "), Id(backend.table), Kw(" (")>>
              \o Interleave(Names(backend.columns), Kw(", "))
              \o <<Kw(") VALUES (")>>
              \o Interleave(PlaceholdersTo(Len(backend.columns)), Kw(", "))
              \o <<Kw(")")>>
              \o (IF backend.flag THEN <<Kw(" RETURNING *")>> ELSE <<>>)
        /\ PlaceholderSeq(backend.out) = PlaceholdersTo(Len(backend.columns))

C22_Witness ==
    /\ backend.fn = "insert"
    /\ Len(backend.columns) = 2
    /\ backend.flag
    /\ PlaceholderSeq(backend.out) = <<placeholder(1), placeholder(2)>>
    /\ backend.out[Len(backend.out)] = Kw(" RETURNING *")

\* `c1 = $1, c2 = $2, ...` for the columns, token by token
SetClauses(columns) ==
    [j \in 1..(IF Len(columns) = 0 THEN 0 ELSE 4 * Len(columns) - 1) |->
        LET i == (j - 1) \div 4 + 1
        IN CASE (j - 1) % 4 = 0 -> Id(columns[i])
             [] (j - 1) % 4 = 1 -> Kw(" = ")
             [] (j - 1) % 4 = 2 -> placeholder(i)
             [] (j - 1) % 4 = 3 -> Kw(", ")]

\* C23: build_update_query gives column i of the list the placeholder $i in its
\* SET clause and $(n+1), n the number of columns, to WHERE id =, so that no
\* index occurs twice and the id is bound last; RETURNING * is appended iff
\* returning is true.
C23_UpdateQueryShape ==
    backend.fn = "update" =>
        /\ backend.out =
              <<Kw("UPDATE "), Id(backend.table), Kw(" SET ")>>
              \o SetClauses(backend.columns)
              \o <<Kw(" WHERE id = "), placeholder(Len(backend.columns) + 1)>>
              \o (IF backend.flag THEN <<Kw(" RETURNING *")>> ELSE <<>>)
        /\ PlaceholderSeq(backend.out) = PlaceholdersTo(Len(backend.columns) + 1)

C23_Witness ==
    /\ backend.fn = "update"
    /\ backend.columns = <<"name">>
    /\ backend.table = "users"
    /\ backend.flag
    /\ backend.out = <<Kw("UPDATE "), Id("users"), Kw(" SET "), Id("name"), Kw(" = "),
                       placeholder(1), Kw(" WHERE id = "), placeholder(2),
                       Kw(" RETURNING *")>>

\* C24: build_delete_query returns DELETE FROM <table> WHERE id = $1 for a hard
\* delete and the UPDATE setting deleted_at and updated_at, guarded by
\* deleted_at IS NULL, for a soft delete; either text is the one delete() of the
\* repository issues for an entity of that table name and soft-delete setting.
C24_DeleteQueryMatchesRepository ==
    backend.fn = "delete" =>
        /\ backend.out =
              IF backend.flag
              THEN <<Kw("UPDATE "), Id(backend.table),
                     Kw(" SET deleted_at = NOW(), updated_at = NOW() WHERE id = "),
                     placeholder(1), Kw(" AND deleted_at IS NULL")>>
              ELSE <<Kw("DELETE FROM "), Id(backend.table), Kw(" WHERE id = "),
                     placeholder(1)>>
        /\ backend.out = delete_query([table_name |-> backend.table,
                                      soft_delete_enabled |-> backend.flag])

C24_Witness ==
    /\ backend.fn = "delete"
    /\ backend.flag
    /\ backend.table = "users"
    /\ backend.out = delete_query(User)
    /\ backend.out[Len(backend.out)] = Kw(" AND deleted_at IS NULL")

(***************************************************************************)
(* Further properties of the repository runs.                              *)
(***************************************************************************)
\* C25: delete(id) returns true iff its statement affected a row: without soft
\* delete iff a row of that id was stored, and afterwards the row is gone and
\* find_by_id(id) returns none; with soft delete iff the row was stored and
\* active; when it returns false the table is as it was.
C25_DeleteReportsAffectedRow ==
    (last.op = "delete" /\ NoFailure(last)) =>
        /\ last.ret \in {"true", "false"}
        /\ IF meta.soft_delete_enabled
           THEN last.ret = "true" <=> Active(last.pre[last.id])
           ELSE /\ last.ret = "true" <=> last.pre[last.id].stored
                /\ ~db[last.id].stored
                /\ find_by_id_rows(meta, db, last.id) = {}
        /\ last.ret = "false" => db = last.pre

\* a delete of a soft-deleted row: nothing affected, nothing changed
C25_Witness ==
    /\ last.op = "delete" /\ NoFailure(last)
    /\ meta.soft_delete_enabled
    /\ SoftDeleted(last.pre[last.id])
    /\ last.ret = "false"
    /\ \E i \in Ids : i # last.id /\ Active(db[i])

\* the number of stored active rows
ActiveRows(table) == Cardinality({i \in Ids : Active(table[i])})

\* what the caller of the last search holds: the SearchResult
LastResult ==
    SearchResult_new(last.items, last.total_count, last.params.page, last.params.per_page)

\* C27: on a soft-delete entity count(default params) is the number of stored
\* active rows after any calls; a create raises it by one, a delete returning
\* true lowers it by one, a restore of a soft-deleted row raises it by one; a
\* search with per_page 1 that no write came between, over two or more matching
\* rows, returns one item and has a next page.
C27_CountTracksActiveRows ==
    meta.soft_delete_enabled =>
        /\ count_result(meta, db, DefaultParams) = ActiveRows(db)
        /\ (last.op = "count" /\ NoFailure(last) /\ last.params = DefaultParams) =>
              last.total_count = ActiveRows(db)
        /\ last.op = "create" =>
              count_result(meta, db, DefaultParams)
                 = count_result(meta, last.pre, DefaultParams) + 1
        /\ (last.op = "delete" /\ last.ret = "true") =>
              count_result(meta, db, DefaultParams)
                 = count_result(meta, last.pre, DefaultParams) - 1
        /\ (last.op = "restore" /\ last.ret = "some" /\ SoftDeleted(last.pre[last.id])) =>
              count_result(meta, db, DefaultParams)
                 = count_result(meta, last.pre, DefaultParams) + 1
        /\ (/\ last.op = "search" /\ last.err = "none"
            /\ last.params.per_page = 1
            /\ last.total_count = last.matched
            /\ last.matched >= 2) =>
              /\ Len(last.items) = 1
              /\ \A overflow_checks \in BOOLEAN :
                    has_next_page(LastResult, overflow_checks) = "true"

\* a count of 1 after two creates and a delete
C27_Witness ==
    /\ meta.soft_delete_enabled
    /\ last.op = "count" /\ NoFailure(last) /\ last.params = DefaultParams
    /\ last.total_count = 1
    /\ \E i \in Ids : SoftDeleted(db[i])

\* what a completed restore(id) on a soft-delete entity left behind
RestoreOutcome ==
    (meta.soft_delete_enabled /\ last.op = "restore" /\ NoFailure(last)) =>
        /\ last.pre[last.id].stored =>
              /\ last.ret = "some"
              /\ Active(db[last.id])
              /\ db[last.id].updated_at >= last.pre[last.id].updated_at
              /\ db[last.id].data = last.pre[last.id].data
        /\ ~last.pre[last.id].stored =>
              /\ last.ret = "none"
              /\ db = last.pre
        /\ \A i \in Ids : i # last.id => db[i] = last.pre[i]

\* a step that is a restore(id) the driver does not fail
RestoreStep ==
    /\ meta.soft_delete_enabled
    /\ last'.op = "restore" /\ NoFailure(last')
    /\ last'.pre = db /\ now' = now /\ pending' = pending

\* C28: on a soft-delete entity restore(id) returns the row for every stored
\* id, soft-deleted or active, and leaves it active with deleted_at cleared and
\* updated_at set to the time of the call; for an id that is not stored it
\* returns none and changes nothing; no other row and no other column changes.
C28_RestoreTouchesEveryStoredRow ==
    /\ []RestoreOutcome
    /\ [][(RestoreStep /\ db[last'.id].stored) =>
             /\ last'.ret = "some"
             /\ db'[last'.id] = [db[last'.id] EXCEPT !.deleted_at = 0, !.updated_at = now]
         ]_vars

\* a restore of an active row that refreshed its updated_at
C28_Witness ==
    /\ meta.soft_delete_enabled
    /\ last.op = "restore" /\ last.ret = "some"
    /\ Active(last.pre[last.id])
    /\ db[last.id].updated_at > last.pre[last.id].updated_at

\* C29: of two delete(id) calls by two callers on one active row, each one
\* statement, with no other call between them, the one executed first returns
\* true and the other returns false and changes nothing; the row ends
\* soft-deleted on a soft-delete entity and removed otherwise; the same holds
\* for two hard_delete(id) calls, which end with the row removed.
C29_OneOfTwoDeletesWins ==
    (last.op \in {"delete", "hard_delete"} /\ NoFailure(last)) =>
        /\ (last.pre[last.id].stored /\ (last.op = "delete" => Active(last.pre[last.id])))
              => last.ret = "true"
        /\ last.again =>
              /\ last.ret = "false"
              /\ last.err = "none"
              /\ db = last.pre
              /\ IF last.op = "delete" /\ meta.soft_delete_enabled
                 THEN SoftDeleted(db[last.id])
                 ELSE ~db[last.id].stored

\* the second of two hard_delete calls on one row
C29_Witness ==
    /\ last.op = "hard_delete" /\ last.again /\ NoFailure(last)
    /\ last.ret = "false"
    /\ ~db[last.id].stored
    /\ \E i \in Ids : db[i].stored

\* query and filters to count under: none, a filter, a query that matches the
\* stored values and one that does not
CountParams ==
    {DefaultParams,
     [DefaultParams EXCEPT !.filters = << <<"status", <<"x">> >> >>],
     [DefaultParams EXCEPT !.query = Some(<<"x">>)],
     [DefaultParams EXCEPT !.query = Some(<<"a">>)]}

CountUnder(table, p, sc) == count_result(meta, table, [p EXCEPT !.scope = sc])

\* C30: on a soft-delete entity delete() and restore() add and remove no stored
\* row and change nothing but deleted_at and updated_at of the row of the given
\* id; so for one query and one filters map count(scope All) is the same before
\* and after the call, and always equals count(scope Active) + count(scope
\* Deleted).
C30_DeleteRestoreFrame ==
    meta.soft_delete_enabled =>
        /\ last.op \in {"delete", "restore"} =>
              /\ \A i \in Ids :
                    /\ db[i].stored = last.pre[i].stored
                    /\ db[i].data = last.pre[i].data
                    /\ i # last.id => db[i] = last.pre[i]
              /\ \A p \in CountParams :
                    CountUnder(db, p, "All") = CountUnder(last.pre, p, "All")
        /\ \A p \in CountParams :
              CountUnder(db, p, "All")
                 = CountUnder(db, p, "Active") + CountUnder(db, p, "Deleted")

\* a delete that moved one of two rows from Active to Deleted
C30_Witness ==
    /\ meta.soft_delete_enabled
    /\ last.op = "delete" /\ last.ret = "true"
    /\ CountUnder(db, DefaultParams, "All") = 2
    /\ CountUnder(db, DefaultParams, "Active") = 1
    /\ CountUnder(db, DefaultParams, "Deleted") = 1
    /\ CountUnder(last.pre, DefaultParams, "Active") = 2

====
